---- MODULE Spec2Model ----
(***************************************************************************)
(* Model of src/new.py: the undirected airport Graph, the memoised         *)
(* get_price, the Heap of candidate Routes and Graph.dijkstra.             *)
(*                                                                         *)
(* Airports are numbered in the order of their IATA codes, so that the     *)
(* tuple comparison of two Airport records (code first) is the comparison  *)
(* of their numbers.  Prices are natural numbers: the haversine price of a *)
(* pair is drawn once, in Init, from the symmetric tables with a zero      *)
(* diagonal.                                                               *)
(***************************************************************************)
EXTENDS Integers, Sequences, FiniteSets, TLC

\* ---------------------------------------------------------------- bounds
\* Largest price of a direct flight.
MaxPrice == 1
\* Longest list of flights handed to Graph.load.
MaxFlights == 2
\* The most push calls made on a Heap that is used on its own.
MaxCalls == 5

\* maxsize of the functools.lru_cache around get_price (new.py:75).  The
\* decorator is applied without arguments, so the program runs with the
\* library default of 128 entries; the model scales the capacity down to 2
\* so that a full cache is reachable with three airports.
Maxsize == 2

\* ------------------------------------------------------------------ data
\* AIRPORTS: IATA code -> Airport (new.py:38).
AIRPORTS == ("AAA" :> 1) @@ ("BBB" :> 2) @@ ("CCC" :> 3)

\* The Airport records of the program.
Airport == {AIRPORTS[c] : c \in DOMAIN AIRPORTS}

\* Codes that occur in the flights table; "ZZZ" is no known airport.
Codes == DOMAIN AIRPORTS \cup {"ZZZ"}

\* Flight(origin, destination): a pair of codes (new.py:9).
Flight == Codes \X Codes

\* Route(price, path) (new.py:10).
Route(price, path) == [price |-> price, path |-> path]

\* What dijkstra returns when the queue runs empty: float('infinity').
NOT_FOUND == [price |-> -1, path |-> <<>>]

\* No dijkstra call has returned.
NoResult == [price |-> 0, path |-> <<>>]

VARIABLES
    pc,          \* "init": no Graph yet; "loaded": Graph.load at its return;
                 \* "idle"; "search": inside dijkstra's loop; "done":
                 \* dijkstra at its return; "heap": a Heap used on its own
    _neighbors,  \* Graph._neighbors: the defaultdict node -> set of nodes
    fare,        \* what get_price computes for each ordered pair
    cache,       \* the lru_cache of get_price, least recently used first
    call,        \* the arguments of the running call: <<origin, destination>>
                 \* of dijkstra, the flights read by load, or <<>>
    routes,      \* dijkstra's Heap: the list Heap._values
    visited,     \* dijkstra's visited set
    result,      \* what dijkstra returned
    connected,   \* history: the pairs {node1, node2} connect was called with
    pushes,      \* history: the push calls made on the Heap so far
    pops         \* history: the pop calls made on the Heap so far

vars == <<pc, _neighbors, fare, cache, call, routes, visited, result,
          connected, pushes, pops>>

origin == call[1]
destination == call[2]

\* ------------------------------------------------------------ the Heap
\* Tuple comparison of two paths (lists of Airports): lexicographic, a
\* proper prefix is smaller.
PathLess(p, q) ==
    \E i \in 1..(Len(q)) :
        /\ \A j \in 1..(i - 1) : j <= Len(p) /\ p[j] = q[j]
        /\ \/ i = Len(p) + 1
           \/ i <= Len(p) /\ p[i] < q[i]

\* Mutant of RouteLess: Routes compared by their paths alone, as if the
\* namedtuple listed path before price.
RouteLessByPath(r1, r2) == PathLess(r1.path, r2.path)

\* Mutant of RouteLess: Routes compared by their prices alone, so that Routes
\* of equal price leave the heap in an order that depends on its layout.
RouteLessByPrice(r1, r2) == r1.price < r2.price

\* r1 < r2 on Route namedtuples: price first, then path.
RouteLess(r1, r2) ==
    \/ r1.price < r2.price
    \/ r1.price = r2.price /\ PathLess(r1.path, r2.path)

\* heapq._siftdown(heap, startpos, pos), positions counted from 0.
RECURSIVE SiftdownLoop(_, _, _, _)
SiftdownLoop(heap, startpos, pos, newitem) ==
    IF pos > startpos
    THEN LET parentpos == (pos - 1) \div 2
             parent == heap[parentpos + 1]
         IN  IF RouteLess(newitem, parent)
             THEN SiftdownLoop([heap EXCEPT ![pos + 1] = parent],
                               startpos, parentpos, newitem)
             ELSE [heap EXCEPT ![pos + 1] = newitem]
    ELSE [heap EXCEPT ![pos + 1] = newitem]

Siftdown(heap, startpos, pos) == SiftdownLoop(heap, startpos, pos, heap[pos + 1])

\* heapq._siftup(heap, pos): bubble the smaller child up until a leaf, then
\* sift the displaced item down into place.
RECURSIVE SiftupLoop(_, _, _, _)
SiftupLoop(heap, startpos, pos, newitem) ==
    LET endpos == Len(heap)
        leftpos == 2 * pos + 1
        rightpos == leftpos + 1
        childpos == IF rightpos < endpos
                       /\ ~RouteLess(heap[leftpos + 1], heap[rightpos + 1])
                    THEN rightpos
                    ELSE leftpos
    IN  IF leftpos < endpos
        THEN SiftupLoop([heap EXCEPT ![pos + 1] = heap[childpos + 1]],
                        startpos, childpos, newitem)
        ELSE Siftdown([heap EXCEPT ![pos + 1] = newitem], startpos, pos)

Siftup(heap, pos) == SiftupLoop(heap, pos, pos, heap[pos + 1])

\* Mutant of push: the value is appended and not sifted into place.
pushAppend(values, value) == Append(values, value)

\* Heap.push(value): heapq.heappush.
push(values, value) == Siftdown(Append(values, value), 0, Len(values))

\* Mutant of pop: the last item of the list is taken, as list.pop does.
popLast(values) == <<values[Len(values)], SubSeq(values, 1, Len(values) - 1)>>

\* Heap.pop(): heapq.heappop, as the pair <<returned item, remaining list>>.
pop(values) ==
    LET lastelt == values[Len(values)]
        heap == SubSeq(values, 1, Len(values) - 1)
    IN  IF heap # <<>>
        THEN <<heap[1], Siftup([heap EXCEPT ![1] = lastelt], 0)>>
        ELSE <<lastelt, heap>>

\* ----------------------------------------------------------- get_price
\* The price tables get_price can compute: symmetric, zero for a
\* degenerate pair (haversine distance times cents_per_km).
PriceTables ==
    {f \in [Airport \X Airport -> 0..MaxPrice] :
        \A a, b \in Airport : f[<<a, b>>] = f[<<b, a>>] /\ f[<<a, a>>] = 0}

\* The keys the lru_cache holds: the argument tuples, in call order.
CacheKeys(c) == {c[i].args : i \in 1..Len(c)}

\* The entry stored under an argument tuple.
CacheEntry(c, key) == CHOOSE i \in 1..Len(c) : c[i].args = key

\* The list without its i-th element.
Remove(s, i) == SubSeq(s, 1, i - 1) \o SubSeq(s, i + 1, Len(s))

\* The value get_price(origin, destination) returns through the lru_cache:
\* the stored result on a hit, the computed price on a miss.
get_price(c, a, b) ==
    IF <<a, b>> \in CacheKeys(c)
    THEN c[CacheEntry(c, <<a, b>>)].result
    ELSE fare[<<a, b>>]

\* The lru_cache after get_price(a, b): a hit moves the entry to the most
\* recently used end; a miss stores the computed price and, when the cache
\* is full, drops the least recently used entry.
CacheAfter(c, a, b) ==
    IF <<a, b>> \in CacheKeys(c)
    THEN LET i == CacheEntry(c, <<a, b>>) IN Append(Remove(c, i), c[i])
    ELSE LET entry == [args |-> <<a, b>>, result |-> fare[<<a, b>>]]
         IN  IF Len(c) >= Maxsize
             THEN Append(Tail(c), entry)
             ELSE Append(c, entry)

\* ----------------------------------------------------------- the Graph
\* self._neighbors[node]: a defaultdict(set) stores an empty set under a
\* key it is asked for and does not hold.
Lookup(nb, node) == IF node \in DOMAIN nb THEN nb ELSE nb @@ (node :> {})

\* Mutant of neighbors: the generator iterates over the mapping itself and
\* yields its keys.
neighborsKeys(nb, node) == DOMAIN nb

\* What Graph.neighbors(node) yields: the set stored under node.
neighbors(nb, node) == Lookup(nb, node)[node]

\* Mutant of connect: the edge is recorded in one direction only.
connectOneWay(nb, node1, node2) ==
    LET n1 == Lookup(nb, node1)
    IN  [n1 EXCEPT ![node1] = @ \cup {node2}]

\* Graph.connect(node1, node2) on the mapping nb.
connect(nb, node1, node2) ==
    LET n1 == Lookup(nb, node1)
        m1 == [n1 EXCEPT ![node1] = @ \cup {node2}]
        n2 == Lookup(m1, node2)
    IN  [n2 EXCEPT ![node2] = @ \cup {node1}]

\* The orders in which iterating over a set can yield its elements.
Orders(S) ==
    {s \in [1..Cardinality(S) -> S] : \A i, j \in DOMAIN s : s[i] = s[j] => i = j}

\* Mutant of load: the first flight with an unknown code ends the loop
\* (break instead of continue).
RECURSIVE loadBreak(_, _)
loadBreak(world, flights) ==
    IF flights = <<>>
    THEN world
    ELSE LET flight == Head(flights)
         IN  IF flight[1] \in DOMAIN AIRPORTS /\ flight[2] \in DOMAIN AIRPORTS
             THEN loadBreak(connect(world, AIRPORTS[flight[1]], AIRPORTS[flight[2]]),
                            Tail(flights))
             ELSE world

\* Graph.load's loop over the flights: a flight with an unknown code raises
\* KeyError before connect and is skipped.
RECURSIVE load(_, _)
load(world, flights) ==
    IF flights = <<>>
    THEN world
    ELSE LET flight == Head(flights)
         IN  IF flight[1] \in DOMAIN AIRPORTS /\ flight[2] \in DOMAIN AIRPORTS
             THEN load(connect(world, AIRPORTS[flight[1]], AIRPORTS[flight[2]]),
                       Tail(flights))
             ELSE load(world, Tail(flights))

\* The flight lists get_flights can yield.
FlightLists == UNION {[1..n -> Flight] : n \in 0..MaxFlights}

\* The pairs Graph.load calls connect with: those of the flights with two
\* known codes.
ConnectCalls(flights) ==
    {{AIRPORTS[flights[i][1]], AIRPORTS[flights[i][2]]} :
        i \in {j \in 1..Len(flights) :
                  flights[j][1] \in DOMAIN AIRPORTS /\ flights[j][2] \in DOMAIN AIRPORTS}}

\* The empty defaultdict of Graph.__init__.
EmptyGraph == [n \in {} |-> {}]

Init ==
    /\ pc = "init"
    /\ _neighbors = EmptyGraph
    /\ fare \in PriceTables
    /\ cache = <<>>
    /\ call = <<>>
    /\ routes = <<>>
    /\ visited = {}
    /\ result = NoResult
    /\ connected = {}
    /\ pushes = 0
    /\ pops = 0

\* world = Graph()
NewGraph ==
    /\ pc = "init"
    /\ pc' = "idle"
    /\ _neighbors' = EmptyGraph
    /\ UNCHANGED <<fare, cache, call, routes, visited, result, connected, pushes, pops>>

\* Graph.load() over the flights get_flights yields, up to its return.
Load ==
    /\ pc = "init"
    /\ \E flights \in FlightLists :
          /\ call' = flights
          /\ _neighbors' = load(EmptyGraph, flights)
          /\ connected' = ConnectCalls(flights)
    /\ pc' = "loaded"
    /\ UNCHANGED <<fare, cache, routes, visited, result, pushes, pops>>

\* world = Graph.load(): the caller has the populated Graph.
LoadReturn ==
    /\ pc = "loaded"
    /\ pc' = "idle"
    /\ call' = <<>>
    /\ UNCHANGED <<_neighbors, fare, cache, routes, visited, result, connected, pushes, pops>>

\* world.connect(node1, node2)
Connect(node1, node2) ==
    /\ pc = "idle"
    /\ _neighbors' = connect(_neighbors, node1, node2)
    /\ connected' = connected \cup {{node1, node2}}
    /\ UNCHANGED <<pc, fare, cache, call, routes, visited, result, pushes, pops>>

\* list(world.neighbors(node))
Neighbors(node) ==
    /\ pc = "idle"
    /\ _neighbors' = Lookup(_neighbors, node)
    /\ UNCHANGED <<pc, fare, cache, call, routes, visited, result, connected, pushes, pops>>

\* Graph.get_price(a, b)
GetPrice(a, b) ==
    /\ pc = "idle"
    /\ cache' = CacheAfter(cache, a, b)
    /\ UNCHANGED <<pc, _neighbors, fare, call, routes, visited, result, connected, pushes, pops>>

\* dijkstra's first loop (new.py:86-88) over the neighbours of origin in the
\* given order: one priced two-node Route per neighbour.  st holds the heap
\* and the cache as the iterations so far have left them; the state after a
\* push is bound as a value (next) before the loop goes on, so that it is
\* computed once.
RECURSIVE StartLoop(_, _, _)
StartLoop(order, o, st) ==
    IF order = <<>>
    THEN st
    ELSE LET neighbor == Head(order)
             price == get_price(st.cache, o, neighbor)
             pushed == [routes |-> push(st.routes, Route(price, <<o, neighbor>>)),
                        cache |-> CacheAfter(st.cache, o, neighbor),
                        pushes |-> st.pushes + 1]
         IN  CHOOSE end \in {StartLoop(Tail(order), o, next) : next \in {pushed}} : TRUE

\* Mutant of ExpandLoop: the price of the new Route is the price of its last
\* flight, without what was spent so far.
RECURSIVE ExpandLoopLastLeg(_, _, _, _, _)
ExpandLoopLastLeg(order, airport, popped, vis, st) ==
    IF order = <<>>
    THEN st
    ELSE LET neighbor == Head(order)
         IN  IF neighbor \notin vis
             THEN LET new_price == get_price(st.cache, airport, neighbor)
                      new_path == Append(popped.path, neighbor)
                      pushed == [routes |-> push(st.routes, Route(new_price, new_path)),
                                 cache |-> CacheAfter(st.cache, airport, neighbor),
                                 pushes |-> st.pushes + 1]
                  IN  CHOOSE end \in {ExpandLoopLastLeg(Tail(order), airport, popped, vis, next) :
                                         next \in {pushed}} : TRUE
             ELSE ExpandLoopLastLeg(Tail(order), airport, popped, vis, st)

\* dijkstra's inner loop (new.py:101-106) over the neighbours of airport.
RECURSIVE ExpandLoop(_, _, _, _, _)
ExpandLoop(order, airport, popped, vis, st) ==
    IF order = <<>>
    THEN st
    ELSE LET neighbor == Head(order)
         IN  IF neighbor \notin vis
             THEN LET new_price == popped.price + get_price(st.cache, airport, neighbor)
                      new_path == Append(popped.path, neighbor)
                      pushed == [routes |-> push(st.routes, Route(new_price, new_path)),
                                 cache |-> CacheAfter(st.cache, airport, neighbor),
                                 pushes |-> st.pushes + 1]
                  IN  CHOOSE end \in {ExpandLoop(Tail(order), airport, popped, vis, next) :
                                         next \in {pushed}} : TRUE
             ELSE ExpandLoop(Tail(order), airport, popped, vis, st)

\* world.dijkstra(o, d) up to the loop (new.py:85-90).
DijkstraStart(o, d) ==
    /\ pc = "idle"
    /\ \E order \in Orders(neighbors(_neighbors, o)) :
          \E st \in {StartLoop(order, o,
                               [routes |-> <<>>, cache |-> cache, pushes |-> 0])} :
              /\ routes' = st.routes
              /\ cache' = st.cache
              /\ pushes' = st.pushes
    /\ pops' = 0
    /\ _neighbors' = Lookup(_neighbors, o)
    /\ visited' = {o}
    /\ call' = <<o, d>>
    /\ pc' = "search"
    /\ UNCHANGED <<fare, result, connected>>

\* Mutant of DijkstraDiscard: the visited test is missing, so a Route that
\* ends at a visited airport other than the destination is expanded again.
DijkstraDiscardExpands ==
    /\ pc = "search"
    /\ routes # <<>>
    /\ \E popped \in {pop(routes)[1]}, rest \in {pop(routes)[2]} :
          LET airport == popped.path[Len(popped.path)]
          IN  /\ airport \in visited
              /\ airport # destination
              /\ \E order \in Orders(neighbors(_neighbors, airport)) :
                    \E st \in {ExpandLoop(order, airport, popped, visited,
                                          [routes |-> rest, cache |-> cache,
                                           pushes |-> pushes])} :
                        /\ routes' = st.routes
                        /\ cache' = st.cache
                        /\ pushes' = st.pushes
    /\ pops' = pops + 1
    /\ UNCHANGED <<pc, _neighbors, fare, call, result, visited, connected>>

\* The popped Route ends at a visited airport: continue (new.py:95-96).
DijkstraDiscard ==
    /\ pc = "search"
    /\ routes # <<>>
    /\ \E popped \in {pop(routes)[1]}, rest \in {pop(routes)[2]} :
          LET airport == popped.path[Len(popped.path)]
          IN  /\ airport \in visited
              /\ routes' = rest
    /\ pops' = pops + 1
    /\ UNCHANGED <<pc, _neighbors, fare, cache, call, visited, result, connected, pushes>>

\* Mutant of DijkstraArrive: the destination test comes before the visited
\* test, so a Route that ends at a visited destination is returned.
DijkstraArriveVisited ==
    /\ pc = "search"
    /\ routes # <<>>
    /\ \E popped \in {pop(routes)[1]}, rest \in {pop(routes)[2]} :
          LET airport == popped.path[Len(popped.path)]
          IN  /\ airport = destination
              /\ routes' = rest
              /\ result' = Route(popped.price, popped.path)
    /\ pops' = pops + 1
    /\ pc' = "done"
    /\ UNCHANGED <<_neighbors, fare, cache, call, visited, connected, pushes>>

\* The popped Route ends at the destination: return it (new.py:98-99).
DijkstraArrive ==
    /\ pc = "search"
    /\ routes # <<>>
    /\ \E popped \in {pop(routes)[1]}, rest \in {pop(routes)[2]} :
          LET airport == popped.path[Len(popped.path)]
          IN  /\ airport \notin visited
              /\ airport = destination
              /\ routes' = rest
              /\ result' = Route(popped.price, popped.path)
    /\ pops' = pops + 1
    /\ pc' = "done"
    /\ UNCHANGED <<_neighbors, fare, cache, call, visited, connected, pushes>>

\* Mutant of DijkstraExpand: the airport is expanded but never marked
\* visited.
DijkstraExpandNoMark ==
    /\ pc = "search"
    /\ routes # <<>>
    /\ \E popped \in {pop(routes)[1]}, rest \in {pop(routes)[2]} :
          LET airport == popped.path[Len(popped.path)]
          IN  /\ airport \notin visited
              /\ airport # destination
              /\ \E order \in Orders(neighbors(_neighbors, airport)) :
                    \E st \in {ExpandLoop(order, airport, popped, visited,
                                          [routes |-> rest, cache |-> cache,
                                           pushes |-> pushes])} :
                        /\ routes' = st.routes
                        /\ cache' = st.cache
                        /\ pushes' = st.pushes
              /\ _neighbors' = Lookup(_neighbors, airport)
    /\ pops' = pops + 1
    /\ UNCHANGED <<pc, fare, call, result, visited, connected>>

\* The popped Route ends at a new airport: push its unvisited neighbours and
\* mark it visited (new.py:101-107).
DijkstraExpand ==
    /\ pc = "search"
    /\ routes # <<>>
    /\ \E popped \in {pop(routes)[1]}, rest \in {pop(routes)[2]} :
          LET airport == popped.path[Len(popped.path)]
          IN  /\ airport \notin visited
              /\ airport # destination
              /\ \E order \in Orders(neighbors(_neighbors, airport)) :
                    \E st \in {ExpandLoop(order, airport, popped, visited,
                                          [routes |-> rest, cache |-> cache,
                                           pushes |-> pushes])} :
                        /\ routes' = st.routes
                        /\ cache' = st.cache
                        /\ pushes' = st.pushes
              /\ _neighbors' = Lookup(_neighbors, airport)
              /\ visited' = visited \cup {airport}
    /\ pops' = pops + 1
    /\ UNCHANGED <<pc, fare, call, result, connected>>

\* Mutant of DijkstraNotFound: the loop does not test the queue, so pop is
\* called on the empty Heap and the call ends without a Route.
DijkstraNotFoundPops ==
    /\ pc = "search"
    /\ routes = <<>>
    /\ pops' = pops + 1
    /\ result' = NOT_FOUND
    /\ pc' = "done"
    /\ UNCHANGED <<_neighbors, fare, cache, call, routes, visited, connected, pushes>>

\* The queue is empty: return float('infinity') (new.py:91, 108).
DijkstraNotFound ==
    /\ pc = "search"
    /\ routes = <<>>
    /\ result' = NOT_FOUND
    /\ pc' = "done"
    /\ UNCHANGED <<_neighbors, fare, cache, call, routes, visited, connected, pushes, pops>>

\* The caller has the result; the locals of the call are gone.
DijkstraReturn ==
    /\ pc = "done"
    /\ pc' = "idle"
    /\ call' = <<>>
    /\ routes' = <<>>
    /\ visited' = {}
    /\ result' = NoResult
    /\ pushes' = 0
    /\ pops' = 0
    /\ UNCHANGED <<_neighbors, fare, cache, connected>>

\* One iteration of dijkstra's while loop, or its exit.
DijkstraLoop ==
    \/ DijkstraDiscard
    \/ DijkstraArrive
    \/ DijkstraExpand
    \/ DijkstraNotFound

Next ==
    \/ NewGraph
    \/ Load
    \/ LoadReturn
    \/ \E node1, node2 \in Airport : Connect(node1, node2)
    \/ \E node \in Airport : Neighbors(node)
    \/ \E a, b \in Airport : GetPrice(a, b)
    \/ \E o, d \in Airport : DijkstraStart(o, d)
    \/ DijkstraLoop
    \/ DijkstraReturn

Spec == Init /\ [][Next]_vars

\* The while loop runs without suspension points: once entered, an
\* iteration that can run does run.
FairSpec == Spec /\ WF_vars(DijkstraLoop)

\* ---------------------------------------------------------------------------
\* A Heap used on its own: any interleaving of push and pop calls, pop being
\* called on a non-empty Heap only.

\* The Routes pushed: every price with a few paths, so that Routes of equal
\* price and Routes pushed twice occur.
HeapValues ==
    {Route(price, path) : price \in 0..MaxPrice,
                          path \in {<<1, 2>>, <<1, 3>>, <<1, 2, 3>>}}

\* Heap.__init__: an empty list of values; no graph is involved.
HeapInit ==
    /\ pc = "heap"
    /\ _neighbors = EmptyGraph
    /\ fare = [pair \in Airport \X Airport |-> 0]
    /\ cache = <<>>
    /\ call = <<>>
    /\ routes = <<>>
    /\ visited = {}
    /\ result = NoResult
    /\ connected = {}
    /\ pushes = 0
    /\ pops = 0

\* heap.push(value).
HeapPush(value) ==
    /\ pc = "heap"
    /\ pushes < MaxCalls
    /\ routes' = push(routes, value)
    /\ pushes' = pushes + 1
    /\ UNCHANGED <<pc, _neighbors, fare, cache, call, visited, result, connected, pops>>

\* heap.pop() on a Heap that holds a value; result takes what it returns.
HeapPop ==
    /\ pc = "heap"
    /\ routes # <<>>
    /\ \E popped \in {pop(routes)[1]}, rest \in {pop(routes)[2]} :
          /\ result' = popped
          /\ routes' = rest
    /\ pops' = pops + 1
    /\ UNCHANGED <<pc, _neighbors, fare, cache, call, visited, connected, pushes>>

HeapNext ==
    \/ \E value \in HeapValues : HeapPush(value)
    \/ HeapPop

HeapSpec == HeapInit /\ [][HeapNext]_vars

\* ------------------------------------------------- what the claims speak of
\* The neighbours of a node, as an observer of the graph sees them.
Nbrs(a) == IF a \in DOMAIN _neighbors THEN _neighbors[a] ELSE {}

\* The undirected edges of the graph.
Edges == UNION {{{a, b} : b \in Nbrs(a)} : a \in Airport}

\* The sum of the prices of the flights along a path.
RECURSIVE PathCost(_)
PathCost(p) ==
    IF Len(p) < 2 THEN 0 ELSE fare[<<p[1], p[2]>>] + PathCost(Tail(p))

\* Whether p walks along edges of the graph.
IsPath(p) == \A i \in 1..(Len(p) - 1) : p[i + 1] \in Nbrs(p[i])

\* The paths from o to d that visit no node twice; <<o>> when o = d.
SimplePaths(o, d) ==
    {p \in UNION {[1..n -> Airport] : n \in 1..Cardinality(Airport)} :
        /\ p[1] = o
        /\ p[Len(p)] = d
        /\ \A i, j \in 1..Len(p) : p[i] = p[j] => i = j
        /\ IsPath(p)}

\* The least cost of a path from o to d (prices are non-negative, so a
\* cheapest walk is a simple path).
MinCost(o, d) ==
    CHOOSE c \in {PathCost(p) : p \in SimplePaths(o, d)} :
        \A p \in SimplePaths(o, d) : c <= PathCost(p)

\* The last node of the Route the next iteration pops.
NextAirport == pop(routes)[1].path[Len(pop(routes)[1].path)]

\* The next iteration settles a new airport: it neither discards a stale
\* Route nor returns.
Settling ==
    /\ pc = "search"
    /\ routes # <<>>
    /\ NextAirport \notin visited
    /\ NextAirport # destination

\* ------------------------------------------------------------------- C1
\* C1: when origin # destination and the graph holds a path between them,
\* dijkstra returns a Route whose price is the least price of a path from
\* origin to destination; when a two-flight path origin-b-destination is
\* cheaper than the direct flight, the direct Route is not the one returned
\* (with three airports the Route returned is [origin, b, destination]).
CheapestRoute ==
    (pc = "done" /\ origin # destination /\ SimplePaths(origin, destination) # {})
    => /\ result # NOT_FOUND
       /\ result.price = MinCost(origin, destination)
       /\ \A b \in Airport \ {origin, destination} :
             (/\ {{origin, b}, {b, destination}, {origin, destination}} \subseteq Edges
              /\ fare[<<origin, b>>] + fare[<<b, destination>>]
                    < fare[<<origin, destination>>])
             => /\ result.path # <<origin, destination>>
                /\ Airport = {origin, b, destination}
                      => result.path = <<origin, b, destination>>

\* C1 witness: dijkstra has returned the two-flight Route of a triangle whose
\* direct flight costs more.
CheapestRouteWitness ==
    /\ pc = "done"
    /\ call = <<1, 3>>
    /\ {{1, 2}, {2, 3}, {1, 3}} \subseteq Edges
    /\ fare[<<1, 3>>] > fare[<<1, 2>>] + fare[<<2, 3>>]
    /\ result = Route(fare[<<1, 2>>] + fare[<<2, 3>>], <<1, 2, 3>>)

\* ------------------------------------------------------------------- C2
\* C2: dijkstra reports NOT_FOUND exactly when no path connects origin to
\* destination (the one-node path connects a node to itself).
NotFoundIffNoPath ==
    pc = "done" => (result = NOT_FOUND <=> SimplePaths(origin, destination) = {})

\* ------------------------------------------------------------------- C3
\* C3: the search loop eventually stops, by a Route or by NOT_FOUND; while it
\* runs the visited set never shrinks, gains exactly one node in an
\* iteration that settles an airport and is unchanged in every other one.
SearchStops ==
    /\ [][pc = "search"
            => /\ visited \subseteq visited'
               /\ IF Settling
                  THEN /\ Cardinality(visited') = Cardinality(visited) + 1
                       /\ pc' = "search"
                  ELSE visited' = visited]_vars
    /\ (pc = "search") ~> (pc = "done")

\* C3 witness: a search over a graph with a cycle, a self-loop and a
\* zero-price flight has settled an airport and has stopped.
SearchStopsWitness ==
    /\ pc = "done"
    /\ Cardinality(visited) >= 2
    /\ {{1, 2}, {2, 3}, {1, 3}} \subseteq Edges
    /\ \E a \in Airport : {a} \in Edges /\ a \in visited /\ a # origin
    /\ \E a, b \in Airport : a # b /\ {a, b} \in Edges /\ fare[<<a, b>>] = 0

\* ------------------------------------------------------------------- C4
\* C4: when origin and destination are the same node, dijkstra returns the
\* Route of price 0 and path [origin].
SelfPath ==
    (pc = "done" /\ origin = destination) => result = Route(0, <<origin>>)

\* ------------------------------------------------------------------- C5
\* C5: a returned Route starts at origin, ends at destination, walks along
\* edges of the graph, and its price is the sum of the prices of its
\* flights; on a graph holding only the edge (origin, destination) it is
\* [origin, destination] at the price of that flight.
RouteIsPricedPath ==
    /\ (pc = "done" /\ result # NOT_FOUND)
       => /\ Len(result.path) >= 1
          /\ result.path[1] = origin
          /\ result.path[Len(result.path)] = destination
          /\ IsPath(result.path)
          /\ result.price = PathCost(result.path)
    /\ (pc = "done" /\ origin # destination /\ Edges = {{origin, destination}})
       => result = Route(fare[<<origin, destination>>], <<origin, destination>>)

\* C5 witness: a Route of two flights with a positive first price has been
\* returned.
RouteIsPricedPathWitness ==
    /\ pc = "done"
    /\ Len(result.path) = 3
    /\ fare[<<result.path[1], result.path[2]>>] > 0
    /\ fare[<<result.path[2], result.path[3]>>] > 0

\* ------------------------------------------------------------------- C6
\* C6: the adjacency relation is symmetric: b is a neighbour of a exactly
\* when a is a neighbour of b.
Symmetric == \A a, b \in Airport : b \in Nbrs(a) <=> a \in Nbrs(b)

\* C6 witness: connect has added edges and a dijkstra call is under way.
SymmetricWitness ==
    /\ pc = "search"
    /\ 2 \in Nbrs(1)
    /\ 3 \in Nbrs(2)
    /\ 1 \notin Nbrs(3)

\* ------------------------------------------------------------------- C7
\* The pairs of airports of the flights whose two codes are known.
KnownPairs(flights) ==
    {{AIRPORTS[flights[i][1]], AIRPORTS[flights[i][2]]} :
        i \in {j \in 1..Len(flights) :
                  flights[j][1] \in DOMAIN AIRPORTS /\ flights[j][2] \in DOMAIN AIRPORTS}}

\* C7: the graph load returns has exactly the edges {origin, destination} of
\* the flights with two known codes, and no node besides their endpoints.
LoadSkipsUnknown ==
    pc = "loaded"
    => /\ Edges = KnownPairs(call)
       /\ DOMAIN _neighbors = UNION KnownPairs(call)

\* C7 witness: load has read a flight from an unknown airport, then a flight
\* between known airports, and has built the graph of the second alone.
LoadSkipsUnknownWitness ==
    /\ pc = "loaded"
    /\ call = <<<<"ZZZ", "AAA">>, <<"BBB", "CCC">>>>
    /\ Edges = {{2, 3}}
    /\ DOMAIN _neighbors = {2, 3}

\* ------------------------------------------------------------------- C8
\* C8: the cache holds at most one entry per unordered pair of nodes, and
\* get_price(a, b) called while the cache holds an entry for (b, a) is a hit
\* that adds no entry.
CacheKeyedByUnorderedPair ==
    [][/\ \A k1, k2 \in CacheKeys(cache') :
             {k1[1], k1[2]} = {k2[1], k2[2]} => k1 = k2
       /\ \A a, b \in Airport :
             (GetPrice(a, b) /\ <<b, a>> \in CacheKeys(cache))
             => CacheKeys(cache') = CacheKeys(cache)]_vars

\* ------------------------------------------------------------------- C9
\* C9: an entry of the cache stays in the cache.
CacheNeverEvicts ==
    [][\A key \in CacheKeys(cache) : key \in CacheKeys(cache')]_vars

\* ------------------------------------------------------------------ C10
\* C10: a call of neighbors or dijkstra leaves the node-to-neighbour-set
\* mapping, its keys included, unchanged.
GraphReadOnly ==
    [][(\/ \E node \in Airport : Neighbors(node)
        \/ \E o, d \in Airport : DijkstraStart(o, d)
        \/ DijkstraLoop
        \/ DijkstraReturn)
       => _neighbors' = _neighbors]_vars

\* ---------------------------------------------------------------------------
\* C11: Graph.neighbors(node) never fails.  For a node with no recorded edge,
\* a node the graph has never seen included, it yields nothing; for any other
\* node it yields exactly the nodes that earlier connect calls joined to it.
NeighborsOfConnected ==
    pc # "init" =>
        \A node \in Airport :
            neighbors(_neighbors, node) =
                {other \in Airport : {node, other} \in connected}

\* One node has been connected, one has been looked up without an edge, and
\* one has never been seen by the graph.
NeighborsOfConnectedWitness ==
    /\ pc = "idle"
    /\ \E node \in DOMAIN _neighbors : _neighbors[node] # {}
    /\ \E node \in DOMAIN _neighbors : _neighbors[node] = {}
    /\ \E node \in Airport : node \notin DOMAIN _neighbors

\* ---------------------------------------------------------------------------
\* C12: Graph.connect is idempotent and insensitive to the order of its two
\* arguments: after connect(A, B), a second connect(A, B) or a connect(B, A)
\* leaves the graph as the single connect(A, B) left it.
ConnectIdempotent ==
    [][\A node1, node2 \in Airport :
          Connect(node1, node2) =>
              /\ connect(_neighbors', node1, node2) = _neighbors'
              /\ connect(_neighbors', node2, node1) = _neighbors'
              /\ connect(_neighbors, node2, node1) = _neighbors']_vars

\* Two different nodes have been connected in a graph that also holds a third
\* node.
ConnectIdempotentWitness ==
    /\ pc = "idle"
    /\ \E node1, node2 \in Airport :
          /\ node1 # node2
          /\ {node1, node2} \in connected
          /\ node2 \in neighbors(_neighbors, node1)
    /\ Cardinality(DOMAIN _neighbors) = 3

\* ---------------------------------------------------------------------------
\* The order of Route tuples: price first, then path.
RefLess(r1, r2) ==
    \/ r1.price < r2.price
    \/ r1.price = r2.price /\ PathLess(r1.path, r2.path)

\* The search over a queue that is a plain set of Routes, always taking the
\* least one.
RECURSIVE RefSearch(_, _, _)
RefSearch(queue, vis, d) ==
    IF queue = {} THEN NOT_FOUND
    ELSE LET least == CHOOSE r \in queue : \A s \in queue \ {r} : RefLess(r, s)
             airport == least.path[Len(least.path)]
             rest == queue \ {least}
         IN  IF airport \in vis THEN RefSearch(rest, vis, d)
             ELSE IF airport = d THEN least
             ELSE RefSearch(
                      rest \cup {Route(least.price + fare[<<airport, n>>],
                                       Append(least.path, n)) :
                                    n \in Nbrs(airport) \ vis},
                      vis \cup {airport}, d)

\* The search from o: the queue starts with the Routes to o's neighbours.
RefResult(o, d) ==
    RefSearch({Route(fare[<<o, n>>], <<o, n>>) : n \in Nbrs(o)}, {o}, d)

\* C13: dijkstra is deterministic: the Route it returns is a function of the
\* graph, the prices, the origin and the destination, whatever the cache
\* holds, whatever the order in which the neighbour sets are iterated and the
\* heap is laid out, and also when Routes of equal price are queued.
Deterministic == pc = "done" => result = RefResult(origin, destination)

\* dijkstra has returned from a search in which the direct Route and a
\* two-flight Route to the destination had the same price.
DeterministicWitness ==
    /\ pc = "done"
    /\ origin # destination
    /\ \E b \in Airport \ {origin, destination} :
          /\ {{origin, b}, {b, destination}, {origin, destination}} \subseteq Edges
          /\ fare[<<origin, b>>] + fare[<<b, destination>>]
                = fare[<<origin, destination>>]
    /\ result # NOT_FOUND
    /\ cache # <<>>

\* ---------------------------------------------------------------------------
\* C14: within one search a node enters visited at most once; the Route that
\* is popped when a node is settled (or reached, for the destination) costs
\* the least cost of a path from origin to that node; and the costs of the
\* Routes popped by successive iterations never decrease.
SettledAtLeastCost ==
    [][(pc = "search" /\ routes # <<>>)
          => LET popped == pop(routes)[1]
             IN  /\ visited \subseteq visited'
                 /\ \A a \in visited' \ visited :
                       /\ a = NextAirport
                       /\ visited' = visited \cup {a}
                 /\ NextAirport \notin visited
                       => popped.price = MinCost(origin, NextAirport)
                 /\ (pc' = "search" /\ routes' # <<>>)
                       => popped.price <= pop(routes')[1].price]_vars

\* A node with a direct flight from origin has been settled at the lower cost
\* of a Route through another node, and a dearer Route is the next to be
\* popped.
SettledAtLeastCostWitness ==
    /\ pc = "search"
    /\ \E a \in visited \ {origin} :
          /\ {origin, a} \in Edges
          /\ MinCost(origin, a) < fare[<<origin, a>>]
    /\ routes # <<>>
    /\ pop(routes)[1].price > 0

\* ---------------------------------------------------------------------------
\* How many times value occurs in values.
Count(values, value) == Cardinality({i \in 1..Len(values) : values[i] = value})

\* C15: after any interleaving of push and pop calls, Heap.pop removes one
\* Route from the Heap and returns it, the Route returned costs no more than
\* any Route that remains, and len(heap) is the number of push calls minus
\* the number of pop calls.
HeapPopsLeast ==
    /\ [][pops' = pops + 1
            => /\ result' = pop(routes)[1]
               /\ \A i \in 1..Len(routes') : result'.price <= routes'[i].price
               /\ \A value \in HeapValues :
                     Count(routes, value) =
                         Count(routes', value) + (IF value = result' THEN 1 ELSE 0)]_vars
    /\ [](Len(routes) = pushes - pops)

\* Two pops and every allowed push have been made on a Heap that now holds
\* two Routes of the same price, the last pop having returned a cheaper one.
HeapPopsLeastWitness ==
    /\ pc = "heap"
    /\ pops = 2
    /\ pushes = MaxCalls
    /\ \E i, j \in 1..Len(routes) :
          /\ i # j
          /\ routes[i].price = routes[j].price
          /\ routes[i].path # routes[j].path
          /\ result.price < routes[i].price
    /\ result # NoResult

\* ---------------------------------------------------------------------------
\* C16: dijkstra never calls Heap.pop on an empty Heap: whenever a pop call
\* is made, the queue holds at least one Route.
PopsNonEmpty == [][pops' = pops + 1 => Len(routes) >= 1]_vars

\* The loop has popped the queue down to nothing and has left without
\* another pop.
PopsNonEmptyWitness ==
    /\ pc = "done"
    /\ result = NOT_FOUND
    /\ routes = <<>>
    /\ pops >= 2
    /\ pops = pushes

\* ---------------------------------------------------------------------------
\* C17: the node being settled counts as visited while its neighbours are
\* expanded: no Route is pushed whose last node is the node being settled
\* (self-loop or not) or any other node of the visited set.
PushedToUnvisited ==
    [][(pc = "search" /\ routes # <<>> /\ pc' = "search")
          => \A i \in 1..Len(routes') :
                (\A j \in 1..Len(routes) : routes[j] # routes'[i])
                    => routes'[i].path[Len(routes'[i].path)]
                           \notin visited \cup {NextAirport}]_vars

\* ---------------------------------------------------------------------------
\* The sum of the numbers of neighbours of the nodes of S.
RECURSIVE DegreeSum(_)
DegreeSum(S) ==
    IF S = {} THEN 0
    ELSE LET a == CHOOSE x \in S : TRUE
         IN  Cardinality(Nbrs(a)) + DegreeSum(S \ {a})

\* C18: during a search the queue holds at most 2 * |E| Routes, E being the
\* undirected edges of the graph: the push calls made so far by the call
\* never exceed the sum of the degrees of origin and of the nodes settled so
\* far.
QueueBounded ==
    pc \in {"search", "done"}
        => /\ pushes <= DegreeSum(visited)
           /\ DegreeSum(visited) <= 2 * Cardinality(Edges)
           /\ Len(routes) <= pushes

\* Every node of a triangle with a self-loop has been settled, each of them
\* having pushed Routes, and stale Routes are still queued.
QueueBoundedWitness ==
    /\ pc = "search"
    /\ visited = Airport
    /\ {{1, 2}, {2, 3}, {1, 3}} \subseteq Edges
    /\ \E a \in Airport : {a} \in Edges
    /\ pushes >= 5
    /\ Len(routes) >= 2

\* ---------------------------------------------------------------------------
\* C19: an iteration that pops a Route whose last node is already visited
\* discards it and does nothing else: it pushes nothing, leaves visited (and
\* the graph and the cache) as they were and does not return, also when the
\* last node is the origin, the destination or a neighbour of the destination.
DiscardOnly ==
    [][(pc = "search" /\ routes # <<>> /\ NextAirport \in visited)
          => /\ routes' = pop(routes)[2]
             /\ pushes' = pushes
             /\ pops' = pops + 1
             /\ UNCHANGED <<pc, visited, result, _neighbors, cache, fare, call>>]_vars

\* A Route has been discarded, and the search goes on, in a call whose origin
\* is also its destination and a neighbour of itself.
DiscardOnlyWitness ==
    /\ pc = "search"
    /\ origin = destination
    /\ origin \in Nbrs(origin)
    /\ pops > Cardinality(visited \ {origin})
    /\ routes # <<>>

\* ---------------------------------------------------------------------------
\* C20: every Route dijkstra returns is a simple path: no node occurs twice
\* in it, also on graphs with self-loops and flights of price zero.
ReturnsSimplePath ==
    (pc = "done" /\ result # NOT_FOUND)
        => \A i, j \in 1..Len(result.path) :
               result.path[i] = result.path[j] => i = j

\* A Route of two flights has been returned on a graph where an intermediate
\* node has a self-loop and a flight of price zero leaves it.
ReturnsSimplePathWitness ==
    /\ pc = "done"
    /\ result # NOT_FOUND
    /\ Len(result.path) = 3
    /\ {result.path[2]} \in Edges
    /\ fare[<<result.path[2], result.path[3]>>] = 0

==============================================================================
